---- MODULE Spec2Model ----
(***************************************************************************)
(* A model of fast-sobel-tfjs: the SobelFilter instance (its validated     *)
(* configuration), the tensor heap of the tensor engine it runs on (live   *)
(* tensors and tidy scopes), and the filter's entry points.                *)
(*                                                                         *)
(* JavaScript values are modelled as follows.  An options object is a      *)
(* record of optional fields, each [given |-> BOOLEAN, v |-> value]: a     *)
(* field that is not given is undefined.  Real numbers are fixed-point     *)
(* integers in units of 1/Scale.                                           *)
(***************************************************************************)
EXTENDS Integers, Sequences, FiniteSets, TLC

VARIABLES
  kernelSize,   \* SobelFilter.kernelSize
  output,       \* SobelFilter.output
  options,      \* SobelFilter.options (grayscale, normalizationRange, normalizeOutputForDisplay)
  live,         \* the tensors of the engine that are not disposed (tf.memory().numTensors)
  nextId,       \* the id the engine gives the next tensor
  pending,      \* the asynchronous calls suspended at their await
  last,         \* the record of the last completed call, as its caller sees it
  peer          \* a second SobelFilter instance of the same caller

vars == <<kernelSize, output, options, live, nextId, pending, last, peer>>

(***************************************************************************)
(* kernels.ts                                                              *)
(***************************************************************************)

\* KERNELS.x and KERNELS.y, as sequences of rows.
KERNELS ==
  [x |-> [k \in {3, 5, 7} |->
            CASE k = 3 -> << <<-1, 0, 1>>,
                             <<-2, 0, 2>>,
                             <<-1, 0, 1>> >>
              [] k = 5 -> << <<-1, -2, 0, 2, 1>>,
                             <<-4, -8, 0, 8, 4>>,
                             <<-6, -12, 0, 12, 6>>,
                             <<-4, -8, 0, 8, 4>>,
                             <<-1, -2, 0, 2, 1>> >>
              [] k = 7 -> << <<-1, -4, -5, 0, 5, 4, 1>>,
                             <<-6, -20, -30, 0, 30, 20, 6>>,
                             <<-15, -50, -75, 0, 75, 50, 15>>,
                             <<-20, -60, -90, 0, 90, 60, 20>>,
                             <<-15, -50, -75, 0, 75, 50, 15>>,
                             <<-6, -20, -30, 0, 30, 20, 6>>,
                             <<-1, -4, -5, 0, 5, 4, 1>> >>],
   y |-> [k \in {3, 5, 7} |->
            CASE k = 3 -> << <<-1, -2, -1>>,
                             <<0, 0, 0>>,
                             <<1, 2, 1>> >>
              [] k = 5 -> << <<-1, -4, -6, -4, -1>>,
                             <<-2, -8, -12, -8, -2>>,
                             <<0, 0, 0, 0, 0>>,
                             <<2, 8, 12, 8, 2>>,
                             <<1, 4, 6, 4, 1>> >>
              [] k = 7 -> << <<-1, -6, -15, -20, -15, -6, -1>>,
                             <<-4, -20, -50, -60, -50, -20, -4>>,
                             <<-5, -30, -75, -90, -75, -30, -5>>,
                             <<0, 0, 0, 0, 0, 0, 0>>,
                             <<5, 30, 75, 90, 75, 30, 5>>,
                             <<4, 20, 50, 60, 50, 20, 4>>,
                             <<1, 6, 15, 20, 15, 6, 1>> >>]]

\* The property names every object literal inherits from Object.prototype:
\* the `in` operator finds them as well as the object's own keys.
ObjectPrototypeKeys ==
  {"constructor", "toString", "valueOf", "hasOwnProperty"}

\* `size in KERNELS.x` for a number: the number's string is an own key
\* (no inherited property name is the string of a number).
isValidKernelSize(size) == size \in DOMAIN KERNELS.x

\* Object.keys(KERNELS.x).map(Number): integer keys in ascending order.
getAvailableKernelSizes == <<3, 5, 7>>

(***************************************************************************)
(* processors.ts: the registry's keys and their validation                 *)
(***************************************************************************)

\* Object.keys(OUTPUT_PROCESSORS), in insertion order.
getAvailableOutputFormats == <<"x", "y", "magnitude", "direction", "normalized">>

OwnOutputFormats == {getAvailableOutputFormats[i] : i \in DOMAIN getAvailableOutputFormats}

\* `format in OUTPUT_PROCESSORS`: own keys and inherited ones.
isValidOutputFormat(format) ==
  format \in OwnOutputFormats \cup ObjectPrototypeKeys


(***************************************************************************)
(* Option objects (types.ts, SobelOptions) as callers can build them at    *)
(* run time: the values are not restricted to the TypeScript types.        *)
(***************************************************************************)

KernelSizeValues == {0, 3, 4, 5, 7}

OutputValues ==
  {"x", "y", "magnitude", "direction", "normalized", "invalid", "", "toString"}

RangeValues == {<<0, 255>>}

Opt(S, dflt) == {[given |-> FALSE, v |-> dflt]} \cup {[given |-> TRUE, v |-> x] : x \in S}

MaxGiven == 2       \* an options object of a caller gives at most MaxGiven fields

SobelOptions ==
  {o \in [kernelSize : Opt(KernelSizeValues, 0),
          output : Opt(OutputValues, ""),
          grayscale : Opt(BOOLEAN, FALSE),
          normalizationRange : Opt(RangeValues, <<0, 1>>),
          normalizeOutputForDisplay : Opt(BOOLEAN, FALSE)] :
     Cardinality({f \in DOMAIN o : o[f].given}) <= MaxGiven}

\* `new SobelFilter()`: no options object at all.
NoOptions ==
  [kernelSize |-> [given |-> FALSE, v |-> 0],
   output |-> [given |-> FALSE, v |-> ""],
   grayscale |-> [given |-> FALSE, v |-> FALSE],
   normalizationRange |-> [given |-> FALSE, v |-> <<0, 1>>],
   normalizeOutputForDisplay |-> [given |-> FALSE, v |-> FALSE]]

(***************************************************************************)
(* Errors and the record of a call                                         *)
(***************************************************************************)

NoError == [kind |-> "none", sizes |-> <<>>, formats |-> <<>>]

\* new Error(`Unsupported kernel size: ... Supported sizes are: 3, 5, 7`)
KernelSizeError ==
  [kind |-> "kernelSize", sizes |-> getAvailableKernelSizes, formats |-> <<>>]

\* new Error(`Unsupported output format: ... Supported formats are: ...`)
OutputFormatError ==
  [kind |-> "output", sizes |-> <<>>, formats |-> getAvailableOutputFormats]


(***************************************************************************)
(* Numbers and rasters.  A raster is [h, w, c, v] with v a function from   *)
(* <<row, column, channel>> to a fixed-point number in units of 1/u, u the  *)
(* raster's resolution: Scale, or Fine for a raster of very small samples. *)
(***************************************************************************)

Scale == 100        \* fixed-point resolution: 1.0 is Scale
MaxH == 2           \* input heights are 1..MaxH
MaxPat == 2         \* input pixel patterns are 0..MaxPat
Fine == 10000000    \* the resolution of the rasters of small samples: 1.0 is Fine

\* 1 / 1e-6: the guard tf.scalar(1e-6) of the min-max normalizations
EpsilonInverse == 1000000

Abs(n) == IF n < 0 THEN -n ELSE n

RECURSIVE Newton(_, _)
Newton(n, x) == LET y == (x + n \div x) \div 2 IN IF y >= x THEN x ELSE Newton(n, y)

\* tf.sqrt on a non-negative number n (n in units of 1/Scale^2, result in 1/Scale).
Sqrt(n) == IF n = 0 THEN 0 ELSE Newton(n, n)

\* pi in fixed point.
Pi == (355 * Scale) \div 113

\* atan(n/d) for 0 <= n <= d, d > 0, in fixed point (a quadratic fit of atan on [0,1]).
AtanUnit(n, d) ==
  LET z == (n * Scale) \div d
  IN (z * Pi) \div (4 * Scale) + (273 * z * (Scale - z)) \div (1000 * Scale)

\* atan of a non-negative slope y/x, x >= 0, y >= 0, not both zero: [0, pi/2].
AtanQuadrant(y, x) ==
  IF y <= x THEN AtanUnit(y, x) ELSE Pi \div 2 - AtanUnit(x, y)

\* tf.atan2(y, x): the angle of the vector (x, y), in (-pi, pi]; atan2(0, 0) = 0.
Atan2(y, x) ==
  CASE x = 0 /\ y = 0 -> 0
    [] x >= 0 /\ y >= 0 /\ ~(x = 0 /\ y = 0) -> AtanQuadrant(y, x)
    [] x < 0 /\ y >= 0 -> Pi - AtanQuadrant(y, -x)
    [] x < 0 /\ y < 0 -> AtanQuadrant(-y, -x) - Pi
    [] x >= 0 /\ y < 0 -> -AtanQuadrant(-y, x)

Idx(h, w, c) == (1..h) \X (1..w) \X (1..c)

\* The samples of a tensor are computed when the tensor is made and stored:
\* the comparison makes the function a stored table, and it is the same
\* function.
Stored(f) == IF f = f THEN f ELSE f

\* The tensor of shape [h, w, c] with the samples v.
Raster(h, w, c, v) == [h |-> h, w |-> w, c |-> c, u |-> Scale, v |-> Stored(v)]

\* The same tensor with its samples read in units of 1/u.
WithUnit(t, u) == [t EXCEPT !.u = u]

NoRaster == [h |-> 0, w |-> 0, c |-> 0, u |-> Scale, v |-> <<>>]

\* tf.zeros([h, w, c])
Zeros(h, w, c) == Raster(h, w, c, [i \in Idx(h, w, c) |-> 0])

RECURSIVE MaxOf(_)
MaxOf(S) == LET x == CHOOSE x \in S : TRUE
            IN IF S = {x} THEN x
               ELSE LET m == MaxOf(S \ {x}) IN IF x > m THEN x ELSE m

RECURSIVE MinOf(_)
MinOf(S) == LET x == CHOOSE x \in S : TRUE
            IN IF S = {x} THEN x
               ELSE LET m == MinOf(S \ {x}) IN IF x < m THEN x ELSE m

Values(t) == {t.v[i] : i \in DOMAIN t.v}

\* tensor.max() and tensor.min(): over the entire tensor, all channels together.
TensorMax(t) == MaxOf(Values(t))
TensorMin(t) == MinOf(Values(t))

IsAllZero(t) == \A i \in DOMAIN t.v : t.v[i] = 0


(***************************************************************************)
(* The tensor engine's heap: h = [live, next, scopes].  Every tensor       *)
(* operation makes one new tensor, tracked by the innermost tidy scope;    *)
(* tf.tidy disposes at its end the tensors its scope tracks, except the    *)
(* returned one, which the enclosing scope tracks from then on (also when  *)
(* the callback throws: then nothing is returned).  dispose() of a         *)
(* disposed tensor does nothing.                                           *)
(***************************************************************************)

Heap(l, n) == [live |-> l, next |-> n, scopes |-> <<>>]

Track(scopes, ids) ==
  IF Len(scopes) = 0 THEN scopes
  ELSE [scopes EXCEPT ![Len(scopes)] = @ \cup ids]

\* n new tensors: their ids are h.next .. h.next + n - 1.
AllocN(h, n) ==
  [live |-> h.live \cup (h.next .. (h.next + n - 1)),
   next |-> h.next + n,
   scopes |-> Track(h.scopes, h.next .. (h.next + n - 1))]

Alloc(h) == AllocN(h, 1)

\* tensor.dispose()
Dispose(h, t) == [h EXCEPT !.live = @ \ {t}]

DisposeIf(cond, h, t) == IF cond THEN Dispose(h, t) ELSE h

StartScope(h) == [h EXCEPT !.scopes = Append(@, {})]

\* The end of a tidy scope whose callback returned the tensors `result`
\* ({} when it threw).
EndScope(h, result) ==
  LET top == h.scopes[Len(h.scopes)]
      rest == SubSeq(h.scopes, 1, Len(h.scopes) - 1)
  IN [live |-> h.live \ (top \ result),
      next |-> h.next,
      scopes |-> Track(rest, top \cap result)]

\* tf.tidy(() => { n operations; return the last one }) seen from outside.
TidyAlloc(h, n) == EndScope(AllocN(StartScope(h), n), {h.next + n - 1})

\* tf.tidy(() => { n operations }) that returns nothing or throws.
TidyDrop(h, n) == EndScope(AllocN(StartScope(h), n), {})

(***************************************************************************)
(* Input tensors, as the caller makes them                                 *)
(***************************************************************************)

Dtypes == {"float32", "int32"}

ChannelCounts == {1, 2, 3, 4}

Widths == {1, 2}

\* An input: its dtype and shape, the pixel pattern pat of its first channel
\* (channel ch has the pattern pat + (ch - 1) * step), and the resolution
\* its samples are given in: a lit pixel is 1.0 at Scale and 1/Fine at Fine.
Inputs ==
  [dtype : Dtypes, h : 1..MaxH, w : Widths, c : ChannelCounts, pat : 0..MaxPat,
   step : {1}, unit : {Scale}]

Bit(n, i) == (n \div (2 ^ i)) % 2

\* The samples of an input: pixel k (row-major) of channel ch is bit k of
\* the channel's pattern.
InputRaster(input) ==
  WithUnit(Raster(input.h, input.w, input.c,
                  [i \in Idx(input.h, input.w, input.c) |->
                     (IF input.unit = Scale THEN Scale ELSE 1)
                       * Bit(input.pat + (i[3] - 1) * input.step,
                             (i[1] - 1) * input.w + (i[2] - 1))]),
           input.unit)

(***************************************************************************)
(* tensor-utils.ts                                                         *)
(***************************************************************************)

\* floatInput.slice([0, 0, 0], [-1, -1, 3]): the first three channels.
SliceRGB(x) == WithUnit(Raster(x.h, x.w, 3, [i \in Idx(x.h, x.w, 3) |-> x.v[i]]), x.u)

\* tf.image.rgbToGrayscale: the luma-weighted sum of R, G, B, one channel.
RgbToGrayscale(x) ==
  WithUnit(Raster(x.h, x.w, 1,
                  [i \in Idx(x.h, x.w, 1) |->
                     (2989 * x.v[<<i[1], i[2], 1>>] + 5870 * x.v[<<i[1], i[2], 2>>]
                        + 1140 * x.v[<<i[1], i[2], 3>>]) \div 10000]),
           x.u)

\* this flips newTensorCreated on for a tensor that is the caller's own
newTensorCreatedAlways(createdFloatTensor) == TRUE

\* `newTensorCreated: createdFloatTensor` of the pass-through branches
newTensorCreated(createdFloatTensor) == createdFloatTensor

\* ensureGrayscaleIfNeeded(input, grayscale): the input is tensor `id` with
\* samples x, `disposed` when the caller passed a disposed tensor; `failing`
\* when the engine fails the first tensor operation made here.  The result:
\* [h, threw, tensor, newTensorCreated, x, warned, stale]; stale holds the
\* tensors that an operation here was handed after this code disposed them.
ensureGrayscaleIfNeeded(h, id, disposed, dtype, x, grayscale, failing) ==
  LET createdFloatTensor == dtype # "float32"
      \* input.toFloat() throws on a disposed tensor
      toFloatThrows == createdFloatTensor /\ (disposed \/ failing)
      h1 == IF createdFloatTensor THEN Alloc(h) ELSE h
      floatInput == IF createdFloatTensor THEN h.next ELSE id
      floatDisposed == ~createdFloatTensor /\ disposed
      failHere == failing /\ ~createdFloatTensor
      Throw(hh) == [h |-> hh, threw |-> TRUE, tensor |-> 0,
                    newTensorCreated |-> FALSE, x |-> NoRaster, warned |-> FALSE,
                    stale |-> {}]
      Return(hh, t, created, y, warn) ==
        [h |-> hh, threw |-> FALSE, tensor |-> t,
         newTensorCreated |-> created, x |-> y, warned |-> warn, stale |-> {}]
  IN CASE toFloatThrows -> Throw(h)
       [] ~toFloatThrows /\ x.c = 4 ->
            \* the slice, in its own tidy, reads floatInput
            IF floatDisposed \/ failHere THEN Throw(TidyDrop(h1, 0))
            ELSE LET h2 == TidyAlloc(h1, 1)
                     rgbTensor == h1.next
                     h3 == DisposeIf(createdFloatTensor, h2, floatInput)
                 IN IF grayscale
                    THEN LET h4 == Alloc(h3)
                             grayTensor == h3.next
                         IN Return(Dispose(h4, rgbTensor), grayTensor, TRUE,
                                   RgbToGrayscale(SliceRGB(x)), FALSE)
                    ELSE Return(h3, rgbTensor, TRUE, SliceRGB(x), FALSE)
       [] ~toFloatThrows /\ x.c = 3 /\ grayscale ->
            \* floatInput is disposed first when it is the float copy, and
            \* rgbToGrayscale then reads it
            LET h2 == DisposeIf(createdFloatTensor, h1, floatInput)
            IN IF createdFloatTensor THEN [Throw(h2) EXCEPT !.stale = {floatInput}]
               ELSE IF floatDisposed \/ failHere THEN Throw(h2)
               ELSE Return(Alloc(h2), h2.next, TRUE, RgbToGrayscale(x), FALSE)
       [] OTHER ->
            Return(h1, floatInput, newTensorCreated(createdFloatTensor), x,
                   x.c \notin {1, 3, 4})


\* this builds the horizontal kernel for both directions
createSobelKernelXOnly(direction, size, channels) ==
  [size |-> size, c |-> channels, k |-> KERNELS["x"][size]]

\* createSobelKernel(direction, kernelSize, channels): the catalog kernel,
\* the same for each of the channels (tile over the channel dimension).
createSobelKernel(direction, size, channels) ==
  [size |-> size, c |-> channels, k |-> KERNELS[direction][size]]

RECURSIVE SumTo(_, _)
SumTo(F, n) == IF n = 0 THEN 0 ELSE F[n] + SumTo(F, n - 1)

\* tf.depthwiseConv2d(x, kernel, 1, 'same'): per channel, stride 1, zero
\* padding of (size - 1) / 2 on every side; the kernel is not flipped.
ConvAt(x, kernel, r, col, ch) ==
  LET p == (kernel.size - 1) \div 2
      Term(n) ==
        LET rr == (n - 1) \div x.w + 1
            cc == ((n - 1) % x.w) + 1
            i == rr - r + p + 1
            j == cc - col + p + 1
        IN IF i \in 1..kernel.size /\ j \in 1..kernel.size
           THEN kernel.k[i][j] * x.v[<<rr, cc, ch>>]
           ELSE 0
  IN SumTo([n \in 1..(x.h * x.w) |-> Term(n)], x.h * x.w)

\* this convolves with stride 2: the output is half the input's size
depthwiseConv2dStride2(x, kernel) ==
  WithUnit(Raster((x.h + 1) \div 2, (x.w + 1) \div 2, x.c,
                  [i \in Idx((x.h + 1) \div 2, (x.w + 1) \div 2, x.c) |->
                     ConvAt(x, kernel, 2 * i[1] - 1, 2 * i[2] - 1, i[3])]),
           x.u)

depthwiseConv2d(x, kernel) ==
  WithUnit(Raster(x.h, x.w, x.c,
                  [i \in Idx(x.h, x.w, x.c) |-> ConvAt(x, kernel, i[1], i[2], i[3])]),
           x.u)

\* 1e-6 in units of 1/u (0 when the unit is coarser than 1e-6).
Epsilon(u) == u \div EpsilonInverse

\* normalizeTensor(tensor, min, max): (t - min(t)) / max(max(t) - min(t), 1e-6),
\* scaled to [min, max]; the result is at the resolution Scale.  A zero
\* range divides zeros by 1e-6.
normalizeTensor(t, min, max) ==
  LET minVal == TensorMin(t)
      maxVal == TensorMax(t)
      range == IF maxVal - minVal > Epsilon(t.u) THEN maxVal - minVal ELSE Epsilon(t.u)
  IN WithUnit([t EXCEPT !.v = Stored([i \in DOMAIN t.v |->
                 (IF range = 0 THEN 0 ELSE ((t.v[i] - minVal) * Scale) \div range)
                     * (max - min)
                   + min * Scale])],
              Scale)

(***************************************************************************)
(* processors.ts: OUTPUT_PROCESSORS.  Each strategy is called with the     *)
(* arguments (gradX, gradY, options) in that order and binds as many as it *)
(* declares parameters.                                                    *)
(***************************************************************************)

AbsT(t) == [t EXCEPT !.v = Stored([i \in DOMAIN t.v |-> Abs(t.v[i])])]

\* tf.sqrt(tf.add(tf.square(gx), tf.square(gy))), element-wise
MagnitudeT(gx, gy) ==
  [gx EXCEPT !.v =
     Stored([i \in DOMAIN gx.v |-> Sqrt(gx.v[i] * gx.v[i] + gy.v[i] * gy.v[i])])]

\* tf.atan2(gy, gx), element-wise
DirectionT(gx, gy) ==
  WithUnit([gx EXCEPT !.v = Stored([i \in DOMAIN gx.v |-> Atan2(gy.v[i], gx.v[i])])],
           Scale)

\* x: (gradX) => tf.abs(gradX)
ProcessorX(arg1, arg2) == AbsT(arg1)

\* y: (gradY) => tf.abs(gradY): its one parameter is the first argument
ProcessorY(arg1, arg2) == AbsT(arg1)

\* magnitude: (gradX, gradY) => ... (per channel and concatenated when C > 1)
ProcessorMagnitude(arg1, arg2) == MagnitudeT(arg1, arg2)

\* direction: (gradX, gradY) => ...
ProcessorDirection(arg1, arg2) == DirectionT(arg1, arg2)

\* options?.normalizationRange || [0, 1]
RangeOf(opts) ==
  IF opts.normalizationRange.given THEN opts.normalizationRange.v ELSE <<0, 1>>

\* normalized: (gradX, gradY, options) => magnitude, min-max scaled to the range
ProcessorNormalized(arg1, arg2, opts) ==
  normalizeTensor(MagnitudeT(arg1, arg2), RangeOf(opts)[1], RangeOf(opts)[2])

\* The tensors a strategy makes, by format and channel count (the last one
\* is its result).
ProcessorAllocs(format, c) ==
  CASE format \in {"x", "y"} -> 1
    [] format = "magnitude" -> IF c > 1 THEN 6 * c + 1 ELSE 4
    [] format = "direction" -> IF c > 1 THEN 3 * c + 1 ELSE 1
    [] format = "normalized" -> IF c > 1 THEN 6 * c + 12 ELSE 15
    [] OTHER -> 0

\* OUTPUT_PROCESSORS[format](gradX, gradY, options) on heap h.  `failFirst`:
\* the engine fails the strategy's first tensor operation; `failMinMax`: it
\* fails the min/max reduction of the normalized strategy.  The result:
\* [h, threw, isTensor, x, logged].  A key inherited from Object.prototype
\* is callable too: toString, valueOf and hasOwnProperty return no tensor,
\* and constructor (Object) returns its first argument.
OutputProcessor(h, format, gradX, gradY, opts, failFirst, failMinMax) ==
  LET c == gradX.c
      Out(hh, threw, isTensor, y, logged) ==
        [h |-> hh, threw |-> threw, isTensor |-> isTensor, x |-> y, logged |-> logged]
      n == ProcessorAllocs(format, c)
      Plain(y) ==
        IF failFirst THEN Out(IF c > 1 /\ format # "x" /\ format # "y"
                              THEN TidyDrop(h, 0) ELSE h,
                              TRUE, FALSE, NoRaster, FALSE)
        ELSE Out(IF c > 1 /\ format # "x" /\ format # "y"
                 THEN TidyAlloc(h, n) ELSE AllocN(h, n),
                 FALSE, TRUE, y, FALSE)
  IN CASE format = "x" -> Plain(ProcessorX(gradX, gradY))
       [] format = "y" -> Plain(ProcessorY(gradX, gradY))
       [] format = "magnitude" -> Plain(ProcessorMagnitude(gradX, gradY))
       [] format = "direction" -> Plain(ProcessorDirection(gradX, gradY))
       [] format = "normalized" ->
            IF c > 1
            THEN \* everything is in the try: the catch returns the magnitude strategy
                 IF failFirst \/ failMinMax
                 THEN Out(TidyAlloc(h, ProcessorAllocs("magnitude", c) + 1),
                          FALSE, TRUE, ProcessorMagnitude(gradX, gradY), TRUE)
                 ELSE Out(TidyAlloc(h, n), FALSE, TRUE,
                          ProcessorNormalized(gradX, gradY, opts), FALSE)
            ELSE \* the magnitude is computed before the try
                 IF failFirst THEN Out(h, TRUE, FALSE, NoRaster, FALSE)
                 ELSE IF failMinMax
                 THEN Out(TidyDrop(AllocN(h, 4), 0), FALSE, TRUE,
                          ProcessorMagnitude(gradX, gradY), TRUE)
                 ELSE Out(TidyAlloc(AllocN(h, 4), 11), FALSE, TRUE,
                          ProcessorNormalized(gradX, gradY, opts), FALSE)
       [] format = "constructor" -> Out(h, FALSE, TRUE, gradX, FALSE)
       [] OTHER -> Out(h, FALSE, FALSE, NoRaster, FALSE)


(***************************************************************************)
(* sobel.ts: SobelFilter                                                   *)
(***************************************************************************)

\* What the environment does to one call: nothing, the caller passes a
\* tensor it has disposed, or the engine fails one tensor operation of the
\* call (the first one of the named step).
Faults ==
  {"none", "disposedInput", "peek", "adapt", "kernel", "conv", "reduce",
   "normalize", "display"}

\* The display normalization of applyToTensor:
\* tf.where(range > 0, (t - min) / range, zeros)
DisplayNormalize(t) ==
  LET min == TensorMin(t)
      range == TensorMax(t) - min
  IN WithUnit([t EXCEPT !.v = Stored([i \in DOMAIN t.v |->
                 IF range > 0 THEN ((t.v[i] - min) * Scale) \div range ELSE 0])],
              Scale)

\* What a tensor call gives its caller: the heap, "returned" or "threw",
\* the returned tensors, their samples, the strategy's output, the logs;
\* shape is the shape of the tensors getGradientComponents returns.
Ret(h, outcome, results, x, reduced, logs) ==
  [h |-> h, outcome |-> outcome, results |-> results, x |-> x,
   reduced |-> reduced, logs |-> logs, stale |-> {}, shape |-> <<>>]

\* SobelFilter.applyToTensor(input) under the configuration cfg; the input
\* is tensor `id` of the given dtype with samples x.
applyToTensor(h, cfg, id, dtype, x, fault) ==
  LET disposed == fault = "disposedInput"
  IN IF disposed \/ fault = "peek"
     THEN \* the first peek at the input is outside every try
          Ret(TidyDrop(h, 0), "threw", {}, NoRaster, NoRaster, {})
     ELSE
     LET hS == StartScope(TidyDrop(h, 1))
         g == ensureGrayscaleIfNeeded(hS, id, disposed, dtype, x,
                                      cfg.options.grayscale, fault = "adapt")
         warn == IF g.warned THEN {"warn: unsupported channel count"} ELSE {}
         \* catch of the outer try: the zero fallback of the input's shape
         OuterCatch(hh) ==
           [Ret(EndScope(Alloc(hh), {hh.next}), "returned", {hh.next},
                Zeros(x.h, x.w, x.c), NoRaster,
                {"error: grayscale conversion"})
              EXCEPT !.stale = g.stale]
     IN IF g.threw THEN OuterCatch(g.h)
        ELSE
        LET processedInput == g.tensor
            hP == TidyDrop(g.h, 1)
            \* catch of the inner try, then its finally
            InnerCatch(hh, reduced, logs) ==
              LET hf == DisposeIf(g.newTensorCreated, Alloc(hh), processedInput)
              IN Ret(EndScope(hf, {hh.next}), "returned", {hh.next},
                     Zeros(x.h, x.w, x.c), reduced,
                     logs \cup warn \cup {"error: sobel convolution"})
        IN IF fault = "kernel" THEN InnerCatch(TidyDrop(hP, 0), NoRaster, {})
           ELSE
           LET hK == TidyAlloc(TidyAlloc(hP, 3), 3)
               sobelXKernel == hP.next + 2
               sobelYKernel == hP.next + 5
               kx == createSobelKernel("x", cfg.kernelSize, g.x.c)
               ky == createSobelKernel("y", cfg.kernelSize, g.x.c)
               DisposeKernels(hh) == Dispose(Dispose(hh, sobelXKernel), sobelYKernel)
           IN IF fault = "conv"
              THEN InnerCatch(DisposeKernels(Alloc(hK)), NoRaster, {})
              ELSE
              LET \* input4D, gradX, gradY and the four logged extrema
                  hC == AllocN(hK, 7)
                  gradX == depthwiseConv2d(g.x, kx)
                  gradY == depthwiseConv2d(g.x, ky)
                  o == OutputProcessor(hC, cfg.output, gradX, gradY, cfg.options,
                                       fault = "reduce", fault = "normalize")
                  ologs == IF o.logged THEN {"error: normalization"} ELSE {}
              IN IF o.threw \/ ~o.isTensor
                 THEN InnerCatch(DisposeKernels(o.h), NoRaster, ologs)
                 ELSE
                 LET \* outputMin, outputMax, squeezedOutput, its sample
                     hO == AllocN(o.h, 4)
                     squeezedOutput == o.h.next + 2
                     Finally(hh) ==
                       DisposeIf(g.newTensorCreated, DisposeKernels(hh), processedInput)
                 IN IF cfg.options.normalizeOutputForDisplay
                    THEN IF fault = "display"
                         THEN InnerCatch(DisposeKernels(TidyDrop(hO, 0)), o.x, ologs)
                         ELSE LET finalNormalizedTensor == hO.next + 7
                                  hN == EndScope(AllocN(StartScope(hO), 10),
                                                 {finalNormalizedTensor})
                                  hD == Dispose(hN, squeezedOutput)
                              IN Ret(EndScope(Finally(hD), {finalNormalizedTensor}),
                                     "returned", {finalNormalizedTensor},
                                     DisplayNormalize(o.x), o.x, ologs \cup warn)
                    ELSE Ret(EndScope(Finally(hO), {squeezedOutput}),
                             "returned", {squeezedOutput}, o.x, o.x, ologs \cup warn)


\* tensor.squeeze() with no axis removes every dimension of size 1;
\* squeeze([0]) removes the batch dimension only.
Squeeze(shape) == SelectSeq(shape, LAMBDA d : d # 1)

\* SobelFilter.getGradientComponents(input): the same pipeline with nothing
\* caught.  The result holds the magnitude (x), the direction (reduced) and
\* two returned tensors, both of the shape the squeeze leaves.
getGradientComponents(h, cfg, id, dtype, x, fault) ==
  LET disposed == fault = "disposedInput"
      hS == StartScope(h)
      createdFloat == dtype # "float32"
      Throw(hh) == Ret(EndScope(hh, {}), "threw", {}, NoRaster, NoRaster, {})
  IN IF createdFloat /\ (disposed \/ fault = "adapt")
     THEN Throw(hS)
     ELSE
     LET h1 == IF createdFloat THEN Alloc(hS) ELSE hS
         inputFloat == IF createdFloat THEN hS.next ELSE id
         g == ensureGrayscaleIfNeeded(h1, inputFloat, disposed /\ ~createdFloat,
                                      "float32", x, cfg.options.grayscale,
                                      fault = "adapt" /\ ~createdFloat)
     IN IF g.threw THEN Throw(g.h)
        ELSE
        LET processedInput == g.tensor
            OuterFinally(hh) ==
              DisposeIf(createdFloat,
                        DisposeIf(g.newTensorCreated, hh, processedInput),
                        inputFloat)
        IN IF fault = "kernel" THEN Throw(OuterFinally(TidyDrop(g.h, 0)))
           ELSE
           LET hK == TidyAlloc(TidyAlloc(g.h, 3), 3)
               sobelXKernel == g.h.next + 2
               sobelYKernel == g.h.next + 5
               kx == createSobelKernel("x", cfg.kernelSize, g.x.c)
               ky == createSobelKernel("y", cfg.kernelSize, g.x.c)
               Finally(hh) ==
                 OuterFinally(Dispose(Dispose(hh, sobelXKernel), sobelYKernel))
           IN IF fault = "conv" \/ (disposed /\ processedInput = id)
              THEN Throw(Finally(Alloc(hK)))
              ELSE IF fault = "reduce" THEN Throw(Finally(AllocN(hK, 3)))
              ELSE
              LET \* input4D, gradX, gradY, two squares, add, sqrt, atan2, two squeezes
                  hC == AllocN(hK, 10)
                  magnitude == hK.next + 8
                  direction == hK.next + 9
                  gradX == depthwiseConv2d(g.x, kx)
                  gradY == depthwiseConv2d(g.x, ky)
              IN [Ret(EndScope(Finally(hC), {magnitude, direction}), "returned",
                      {magnitude, direction}, MagnitudeT(gradX, gradY),
                      DirectionT(gradX, gradY), {})
                  EXCEPT !.shape = Squeeze(<<1, gradX.h, gradX.w, gradX.c>>)]

(***************************************************************************)
(* The instance: constructor, getConfig, configure                         *)
(***************************************************************************)

\* The instance's fields as one record.
Cfg == [kernelSize |-> kernelSize, output |-> output, options |-> options]

\* SobelFilter.getConfig()
getConfig(cfg) ==
  [kernelSize |-> cfg.kernelSize,
   output |-> cfg.output,
   grayscale |-> cfg.options.grayscale,
   normalizationRange |-> cfg.options.normalizationRange,
   normalizeOutputForDisplay |-> cfg.options.normalizeOutputForDisplay]

\* new SobelFilter(o): the fields it sets and whether it throws.
\* `a || b` takes b when a is undefined, 0 or the empty string.
constructor(o) ==
  LET ks == IF o.kernelSize.given /\ o.kernelSize.v # 0 THEN o.kernelSize.v ELSE 3
      out == IF o.output.given /\ o.output.v # "" THEN o.output.v ELSE "magnitude"
      cfg == [kernelSize |-> ks,
              output |-> out,
              options |->
                [grayscale |-> o.grayscale.given /\ o.grayscale.v,
                 normalizationRange |-> o.normalizationRange,
                 normalizeOutputForDisplay |->
                   IF o.normalizeOutputForDisplay.given
                   THEN o.normalizeOutputForDisplay.v ELSE TRUE]]
  IN CASE ~isValidKernelSize(ks) -> [cfg |-> cfg, error |-> KernelSizeError]
       [] isValidKernelSize(ks) /\ ~isValidOutputFormat(out) ->
            [cfg |-> cfg, error |-> OutputFormatError]
       [] OTHER -> [cfg |-> cfg, error |-> NoError]

\* this leaves out the update of normalizeOutputForDisplay
configureWithoutDisplay(cfg, o) ==
  IF o.kernelSize.given /\ ~isValidKernelSize(o.kernelSize.v)
  THEN [cfg |-> cfg, error |-> KernelSizeError]
  ELSE
  LET c1 == IF o.kernelSize.given
            THEN [cfg EXCEPT !.kernelSize = o.kernelSize.v] ELSE cfg
  IN IF o.output.given /\ ~isValidOutputFormat(o.output.v)
     THEN [cfg |-> c1, error |-> OutputFormatError]
     ELSE
     LET c2 == IF o.output.given THEN [c1 EXCEPT !.output = o.output.v] ELSE c1
         c3 == IF o.grayscale.given
               THEN [c2 EXCEPT !.options.grayscale = o.grayscale.v] ELSE c2
         c4 == IF o.normalizationRange.given
               THEN [c3 EXCEPT !.options.normalizationRange = o.normalizationRange]
               ELSE c3
     IN [cfg |-> c4, error |-> NoError]

\* SobelFilter.configure(o): the fields are checked and assigned one after
\* the other, in the order kernelSize, output, the rest.
configure(cfg, o) ==
  IF o.kernelSize.given /\ ~isValidKernelSize(o.kernelSize.v)
  THEN [cfg |-> cfg, error |-> KernelSizeError]
  ELSE
  LET c1 == IF o.kernelSize.given
            THEN [cfg EXCEPT !.kernelSize = o.kernelSize.v] ELSE cfg
  IN IF o.output.given /\ ~isValidOutputFormat(o.output.v)
     THEN [cfg |-> c1, error |-> OutputFormatError]
     ELSE
     LET c2 == IF o.output.given THEN [c1 EXCEPT !.output = o.output.v] ELSE c1
         c3 == IF o.grayscale.given
               THEN [c2 EXCEPT !.options.grayscale = o.grayscale.v] ELSE c2
         c4 == IF o.normalizationRange.given
               THEN [c3 EXCEPT !.options.normalizationRange = o.normalizationRange]
               ELSE c3
         c5 == IF o.normalizeOutputForDisplay.given
               THEN [c4 EXCEPT !.options.normalizeOutputForDisplay =
                                  o.normalizeOutputForDisplay.v]
               ELSE c4
     IN [cfg |-> c5, error |-> NoError]


\* applyWithFormat without the assignment of its finally block: the format
\* of the call stays in this.output.
applyWithFormatNoFinally(h, cfg, id, dtype, x, outputFormat, fault) ==
  LET r == applyToTensor(h, [cfg EXCEPT !.output = outputFormat], id, dtype, x, fault)
  IN [r |-> r, output |-> outputFormat]

\* SobelFilter.applyWithFormat(input, outputFormat): this.output is set to
\* the format for the call and set back in the finally.  The result is the
\* call's result and the output format left behind.
applyWithFormat(h, cfg, id, dtype, x, outputFormat, fault) ==
  LET currentFormat == cfg.output
      r == applyToTensor(h, [cfg EXCEPT !.output = outputFormat], id, dtype, x, fault)
  IN [r |-> r, output |-> currentFormat]

\* static SobelFilter.applyToTensor(tensor, options): the float copy, the
\* construction, the call, the disposal of the copy; no try around them.
\* The result is the call's result and the constructor's error.
staticApplyToTensor(h, id, dtype, x, o, fault) ==
  LET createdFloat == dtype # "float32"
      Throw(hh, e) ==
        [r |-> Ret(hh, "threw", {}, NoRaster, NoRaster, {}), error |-> e]
  IN IF createdFloat /\ fault = "disposedInput"
     THEN Throw(h, NoError)
     ELSE
     LET h1 == IF createdFloat THEN Alloc(h) ELSE h
         floatTensor == IF createdFloat THEN h.next ELSE id
         c == constructor(o)
     IN IF c.error # NoError
        THEN Throw(h1, c.error)
        ELSE
        LET r == applyToTensor(h1, c.cfg, floatTensor, "float32", x, fault)
        IN IF r.outcome = "threw"
           THEN [r |-> r, error |-> NoError]
           ELSE [r |-> [r EXCEPT !.h = DisposeIf(createdFloat, r.h, floatTensor)],
                 error |-> NoError]

(***************************************************************************)
(* The state machine: one filter instance, its caller and the engine       *)
(***************************************************************************)

\* The second instance.  `this.options = options || {}` keeps the object
\* the caller passed: `aliased` when the second instance's this.options is
\* the very object that is the first instance's this.options (the variable
\* options), `callerHolds` when the caller holds a reference to that object.
NoPeer ==
  [made |-> FALSE, kernelSize |-> 3, output |-> "magnitude",
   options |-> constructor(NoOptions).cfg.options,
   aliased |-> FALSE, callerHolds |-> FALSE]

\* The fields of the second instance as one record.
PeerCfg ==
  [kernelSize |-> peer.kernelSize, output |-> peer.output,
   options |-> IF peer.aliased THEN options ELSE peer.options]

NoInput ==
  [dtype |-> "float32", h |-> 0, w |-> 0, c |-> 0, pat |-> 0, step |-> 1,
   unit |-> Scale]

\* The record of a completed call: what was passed, what the caller saw
\* before it (configuration, live tensors, the input tensor) and what it got.
Call(op, outcome, error, opts, before, liveBefore, inputId, input, fault, format, r) ==
  [op |-> op, outcome |-> outcome, error |-> error, opts |-> opts,
   before |-> before, liveBefore |-> liveBefore,
   inputId |-> inputId, input |-> input, fault |-> fault, format |-> format,
   results |-> r.results, x |-> r.x, reduced |-> r.reduced, logs |-> r.logs,
   pixels |-> <<>>, data |-> <<>>, stale |-> r.stale, shape |-> r.shape,
   peerBefore |-> getConfig(PeerCfg)]

NoRet == Ret(Heap({}, 1), "none", {}, NoRaster, NoRaster, {})

Idle ==
  Call("none", "none", NoError, NoOptions, getConfig(constructor(NoOptions).cfg),
       {}, 0, NoInput, "none", "", NoRet)

\* the state after `new SobelFilter()`
Init ==
  /\ kernelSize = constructor(NoOptions).cfg.kernelSize
  /\ output = constructor(NoOptions).cfg.output
  /\ options = constructor(NoOptions).cfg.options
  /\ live = {}
  /\ nextId = 1
  /\ pending = <<>>
  /\ peer = NoPeer
  /\ last = Idle

Quiet == last.op = "none" /\ pending = <<>>

SetCfg(cfg) ==
  /\ kernelSize' = cfg.kernelSize
  /\ output' = cfg.output
  /\ options' = cfg.options

\* filter = new SobelFilter(o): when the constructor throws, the caller
\* keeps the instance it had.
Construct(o) ==
  /\ Quiet
  /\ LET c == constructor(o)
     IN /\ IF c.error = NoError THEN SetCfg(c.cfg)
           ELSE UNCHANGED <<peer, kernelSize, output, options>>
        /\ last' = Call("construct",
                        IF c.error = NoError THEN "returned" ELSE "threw",
                        c.error, o, getConfig(Cfg), live, 0, NoInput, "none", "", NoRet)
  /\ UNCHANGED <<peer, live, nextId, pending>>

\* filter.configure(o)
Configure(o) ==
  /\ last.op = "none"
  /\ LET c == configure(Cfg, o)
     IN /\ SetCfg(c.cfg)
        /\ last' = Call("configure",
                        IF c.error = NoError THEN "returned" ELSE "threw",
                        c.error, o, getConfig(Cfg), live, 0, NoInput, "none", "", NoRet)
  /\ UNCHANGED <<peer, live, nextId, pending>>

\* filter.getConfig()
GetConfig ==
  /\ last.op = "none"
  /\ last' = Call("getConfig", "returned", NoError, NoOptions, getConfig(Cfg), live,
                  0, NoInput, "none", "", NoRet)
  /\ UNCHANGED <<peer, kernelSize, output, options, live, nextId, pending>>

\* The heap a tensor call starts on: the caller has made the input tensor
\* (and, for the fault "disposedInput", disposed it again).
CallHeap(fault) ==
  Heap(IF fault = "disposedInput" THEN live ELSE live \cup {nextId}, nextId + 1)

TensorCall(op, input, fault, format, ret) ==
  \E r \in {ret} :
    /\ live' = r.h.live
    /\ nextId' = r.h.next
    /\ last' = Call(op, r.outcome, NoError, NoOptions, getConfig(Cfg),
                    CallHeap(fault).live, nextId, input, fault, format, r)

\* filter.applyToTensor(input)
ApplyToTensor(input, fault) ==
  /\ Quiet
  /\ TensorCall("applyToTensor", input, fault, "",
                applyToTensor(CallHeap(fault), Cfg, nextId, input.dtype,
                              InputRaster(input), fault))
  /\ UNCHANGED <<peer, kernelSize, output, options, pending>>

\* filter.applyWithFormat(input, format)
ApplyWithFormat(input, format, fault) ==
  /\ Quiet
  /\ \E a \in {applyWithFormat(CallHeap(fault), Cfg, nextId, input.dtype,
                                 InputRaster(input), format, fault)} :
        /\ TensorCall("applyWithFormat", input, fault, format, a.r)
        /\ output' = a.output
  /\ UNCHANGED <<peer, kernelSize, options, pending>>

\* filter.getGradientComponents(input)
GetGradientComponents(input, fault) ==
  /\ Quiet
  /\ TensorCall("getGradientComponents", input, fault, "",
                getGradientComponents(CallHeap(fault), Cfg, nextId, input.dtype,
                                      InputRaster(input), fault))
  /\ UNCHANGED <<peer, kernelSize, output, options, pending>>

\* Tensor ids are opaque: the live tensors renamed 1..n in their order.
Compact(S) == {Cardinality({u \in S : u <= t}) : t \in S}

\* The caller is done with the last call: it disposes the input and the
\* tensors the call returned to it.
Consume ==
  /\ last.op # "none"
  /\ pending = <<>>
  /\ LET kept == live \ ({last.inputId} \cup last.results)
     IN /\ live' = Compact(kept)
        /\ nextId' = Cardinality(kept) + 1
  /\ last' = Idle
  /\ UNCHANGED <<peer, kernelSize, output, options, pending>>


(***************************************************************************)
(* The asynchronous entry points: each runs to its await (the copy of the  *)
(* device data to the host), is suspended there, and runs its finally      *)
(* blocks when it is resumed.                                              *)
(***************************************************************************)

MaxPending == 1     \* calls suspended at the same time are at most MaxPending + 1
MaxLive == 3        \* a call starts only while at most MaxLive tensors are live

AsyncOps == {"processImageData", "processPixelArray", "process2DArray"}

\* new Uint8ClampedArray(values): round to nearest (ties to even), clamp to 0..255
ToUint8Clamped(v) ==
  LET q == v \div Scale
      rem == v % Scale
      n == IF 2 * rem > Scale \/ (2 * rem = Scale /\ q % 2 = 1) THEN q + 1 ELSE q
  IN IF n < 0 THEN 0 ELSE IF n > 255 THEN 255 ELSE n

\* clipByValue(0, 255).cast('int32'): clip, then drop the fraction
ClipToInt(v) ==
  LET cl == IF v < 0 THEN 0 ELSE IF v > 255 * Scale THEN 255 * Scale ELSE v
  IN cl \div Scale

\* tensorToImageData(tensor, normalize): the RGBA pixels of the ImageData
\* (1 channel: gray in R, G, B; 3 channels: RGB; alpha 255 for both).
tensorToImageData(t, normalize) ==
  LET imageTensor == IF normalize THEN normalizeTensor(t, 0, 255) ELSE t
  IN Raster(t.h, t.w, 4,
            [i \in Idx(t.h, t.w, 4) |->
               CASE t.c = 4 -> ClipToInt(imageTensor.v[i])
                 [] t.c # 4 /\ i[3] = 4 -> 255
                 [] t.c = 3 /\ i[3] < 4 -> ClipToInt(imageTensor.v[i])
                 [] OTHER -> ClipToInt(imageTensor.v[<<i[1], i[2], 1>>])])

\* this checks the channel count only
pixelArrayToTensorThrowsOnChannels(channels, lengthOk) ==
  channels \notin {1, 3, 4}

\* pixelArrayToTensor(pixels, width, height, channels): the two checks
pixelArrayToTensorThrows(channels, lengthOk) ==
  channels \notin {1, 3, 4} \/ ~lengthOk

\* pixelArrayToTensor(pixels, width, height, channels), the checks passed:
\* tf.tensor3d(Array.from(pixels), [height, width, channels], 'int32')
pixelArrayToTensor(pixels, width, height, channels) ==
  Raster(height, width, channels,
         [i \in Idx(height, width, channels) |->
            Scale * pixels[((i[1] - 1) * width + (i[2] - 1)) * channels + i[3]]])

\* tensor.data(): the samples in row-major order
Flatten(t) ==
  [k \in 1..(t.h * t.w * t.c) |->
     t.v[<<(k - 1) \div (t.w * t.c) + 1,
           (((k - 1) \div t.c) % t.w) + 1,
           ((k - 1) % t.c) + 1>>]]

\* A suspended call: what it disposes when resumed and what it then returns.
Suspended(op, input, liveBefore, dispose, x, r) ==
  [op |-> op, input |-> input, liveBefore |-> liveBefore, before |-> getConfig(Cfg),
   dispose |-> dispose, x |-> x, r |-> r, fault |-> "none"]

CanStart == last.op = "none" /\ Len(pending) <= MaxPending /\ Cardinality(live) <= MaxLive

Suspend(p, h) ==
  /\ pending' = Append(pending, p)
  /\ live' = h.live
  /\ nextId' = h.next
  /\ UNCHANGED <<peer, kernelSize, output, options, last>>

\* processImageData(imageData), to the await in tensorToImageData:
\* fromPixels(imageData, 4), toFloat(), applyToTensor, normalizeTensor in a
\* tidy, the logged statistics in a tidy, clip and cast in a tidy.
ProcessImageData(input) ==
  /\ CanStart
  /\ input.c = 4 /\ input.dtype = "int32"
  /\ \E r \in {applyToTensor(AllocN(Heap(live, nextId), 2), Cfg, nextId + 1,
                              "float32", InputRaster(input), "none")} :
       \E h1 \in {TidyAlloc(TidyDrop(TidyAlloc(r.h, 11), 3), 2)} :
         LET imageTensor == nextId + 1
             intTensor == h1.next - 1
         IN Suspend(Suspended("processImageData", input, live,
                              {intTensor, imageTensor},
                              tensorToImageData(r.x, TRUE), r), h1)

\* processPixelArray(pixels, width, height, channels), to the await of
\* normalizedTensor.data(); a rejected call makes no tensor.
ProcessPixelArray(input, lengthOk) ==
  /\ CanStart
  /\ input.dtype = "int32"
  /\ IF pixelArrayToTensorThrows(input.c, lengthOk)
     THEN /\ last' = Call("processPixelArray", "rejected", NoError, NoOptions,
                          getConfig(Cfg), live, 0, input,
                          IF lengthOk THEN "none" ELSE "badLength", "", NoRet)
          /\ UNCHANGED <<peer, kernelSize, output, options, live, nextId, pending>>
     ELSE \E r \in {applyToTensor(AllocN(Heap(live, nextId), 2), Cfg, nextId + 1,
                                   "float32", InputRaster(input), "none")} :
            \E n \in {normalizeTensor(r.x, 0, 255)} :
              LET imageTensor == nextId + 1
                  h1 == TidyAlloc(r.h, 11)
                  normalizedTensor == h1.next - 1
              IN Suspend([Suspended("processPixelArray", input, live,
                                    {normalizedTensor, imageTensor},
                                    Raster(n.h, n.w, n.c,
                                           [i \in DOMAIN n.v |-> ToUint8Clamped(n.v[i])]),
                                    r)
                            EXCEPT !.fault = IF lengthOk THEN "none" ELSE "badLength"],
                         h1)

\* process2DArray(data), to the await of resultTensor.array()
Process2DArray(input) ==
  /\ CanStart
  /\ input.c = 1 /\ input.dtype = "float32"
  /\ \E r \in {applyToTensor(AllocN(Heap(live, nextId), 2), Cfg, nextId + 1,
                              "float32", InputRaster(input), "none")} :
       LET dataTensor == nextId + 1
       IN Suspend(Suspended("process2DArray", input, live,
                            r.results \cup {dataTensor}, r.x, r), r.h)

\* What each entry point makes of the raster x that applyToTensor returned,
\* before its await.
AsyncValue(op, x) ==
  CASE op = "processImageData" -> tensorToImageData(x, TRUE)
    [] op = "processPixelArray" ->
         Raster(x.h, x.w, x.c,
                [i \in DOMAIN x.v |-> ToUint8Clamped(normalizeTensor(x, 0, 255).v[i])])
    [] OTHER -> x

\* this runs the filter after the await, under the fields of that moment
ResolvedLate(p, cfg) ==
  AsyncValue(p.op, applyToTensor(Heap({1}, 2), cfg, 1, "float32",
                                 InputRaster(p.input), "none").x)

\* The value a suspended call resolves with: the data of the tensor it made
\* before its await; the continuation reads no field of the instance.
Resolved(p, cfg) == p.x

\* The await of suspended call i completes: the rest of the call runs (its
\* finally blocks dispose) and its promise resolves.
Resume(i) ==
  /\ i \in 1..Len(pending)
  /\ last.op = "none"
  /\ LET p == pending[i]
     IN /\ live' = live \ p.dispose
        /\ last' = Call(p.op, "resolved", NoError, NoOptions, p.before, p.liveBefore,
                        0, p.input, p.fault, "",
                        [p.r EXCEPT !.x = Resolved(p, Cfg), !.results = {}])
        /\ pending' = SubSeq(pending, 1, i - 1) \o SubSeq(pending, i + 1, Len(pending))
  /\ UNCHANGED <<peer, kernelSize, output, options, nextId>>

MaxBufLen == 4      \* the pixel buffers of a round trip hold at most MaxBufLen bytes

ByteValues == {0, 7, 255}

\* The shapes of the pixel buffers: width, height, channels.
BufferShapes ==
  {sh \in (1..MaxBufLen) \X (1..MaxBufLen) \X {1, 3, 4} :
     sh[1] * sh[2] * sh[3] <= MaxBufLen}

\* data = (await tensorToImageData(pixelArrayToTensor(buf, w, h, c), false)).data:
\* the tensor made from the buffer, the logged statistics in a tidy, clip
\* and cast in a tidy, the copy to the host, intTensor disposed.
RoundTrip(buf, w, h, c) ==
  /\ CanStart
  /\ pending = <<>>
  /\ ~pixelArrayToTensorThrows(c, Len(buf) = w * h * c)
  /\ \E t \in {pixelArrayToTensor(buf, w, h, c)} :
       LET h0 == Alloc(Heap(live, nextId))
           h1 == TidyAlloc(TidyDrop(h0, 3), 2)
           intTensor == h1.next - 1
           h2 == Dispose(h1, intTensor)
       IN /\ live' = h2.live
          /\ nextId' = h2.next
          /\ last' = [Call("roundTrip", "resolved", NoError, NoOptions, getConfig(Cfg),
                           live, nextId,
                           [dtype |-> "int32", h |-> h, w |-> w, c |-> c, pat |-> 0,
                            step |-> 1, unit |-> Scale],
                           "none", "", NoRet)
                      EXCEPT !.pixels = buf,
                             !.data = Flatten(tensorToImageData(t, FALSE))]
  /\ UNCHANGED <<peer, kernelSize, output, options, pending>>

\* The caller has read the result of a completed asynchronous call.  While
\* no call is suspended no tensor is referred to by anyone, and the opaque
\* ids of the live ones are renamed 1..n.
Forget ==
  /\ last.op # "none"
  /\ last' = Idle
  /\ IF pending = <<>>
     THEN live' = Compact(live) /\ nextId' = Cardinality(live) + 1
     ELSE UNCHANGED <<peer, live, nextId>>
  /\ UNCHANGED <<peer, kernelSize, output, options, pending>>


\* SobelFilter.applyToTensor(input, o), the static method
StaticApplyToTensor(input, o, fault) ==
  /\ Quiet
  /\ Cardinality(live) <= MaxLive
  /\ \E s \in {staticApplyToTensor(CallHeap(fault), nextId, input.dtype,
                                     InputRaster(input), o, fault)} :
       /\ live' = s.r.h.live
       /\ nextId' = s.r.h.next
       /\ last' = Call("staticApplyToTensor", s.r.outcome, s.error, o, getConfig(Cfg),
                       CallHeap(fault).live, nextId, input, fault, "", s.r)
  /\ UNCHANGED <<peer, kernelSize, output, options, pending>>

\* How the caller builds two instances from the options o: from two
\* literals it keeps no reference to, from two objects it keeps, or from
\* one object it keeps.
PairModes == {"literals", "copies", "same"}

\* a = new SobelFilter(o1); b = new SobelFilter(o2), both accepted.  The
\* second constructor finds in a shared object what the first one wrote:
\* the same values.
ConstructPair(o, mode) ==
  /\ Quiet
  /\ constructor(o).error = NoError
  /\ SetCfg(constructor(o).cfg)
  /\ peer' = [made |-> TRUE,
              kernelSize |-> constructor(o).cfg.kernelSize,
              output |-> constructor(o).cfg.output,
              options |-> constructor(o).cfg.options,
              aliased |-> mode = "same",
              callerHolds |-> mode # "literals"]
  /\ last' = Call("constructPair", "returned", NoError, o, getConfig(Cfg), live, 0,
                  NoInput, "none", "", NoRet)
  /\ UNCHANGED <<live, nextId, pending>>

\* b.configure(o) on the second instance: kernelSize and output are fields
\* of the instance, the rest is written into its this.options object.
ConfigurePeer(o) ==
  /\ last.op = "none"
  /\ peer.made
  /\ LET c == configure(PeerCfg, o)
     IN /\ peer' = [peer EXCEPT !.kernelSize = c.cfg.kernelSize,
                                !.output = c.cfg.output,
                                !.options = IF peer.aliased THEN @ ELSE c.cfg.options]
        /\ options' = IF peer.aliased THEN c.cfg.options ELSE options
        /\ last' = Call("configurePeer",
                        IF c.error = NoError THEN "returned" ELSE "threw",
                        c.error, o, getConfig(Cfg), live, 0, NoInput, "none", "", NoRet)
  /\ UNCHANGED <<kernelSize, output, live, nextId, pending>>

\* The caller writes o.grayscale = b into the options object it passed to
\* the first constructor.
MutateOptions(b) ==
  /\ last.op = "none"
  /\ peer.callerHolds
  /\ options' = [options EXCEPT !.grayscale = b]
  /\ last' = Call("mutateOptions", "returned", NoError,
                  [NoOptions EXCEPT !.grayscale = [given |-> TRUE, v |-> b]],
                  getConfig(Cfg), live, 0, NoInput, "none", "", NoRet)
  /\ UNCHANGED <<peer, kernelSize, output, live, nextId, pending>>

(***************************************************************************)
(* Specifications                                                          *)
(***************************************************************************)

\* The inputs of the tensor calls of Spec and SpecAsync: the largest shape
\* and the last pattern, of every dtype and channel count.
ProbeInputs == {i \in Inputs : i.h = MaxH /\ i.w = 2 /\ i.pat = MaxPat}

\* The inputs and the faults of the tensor calls of Spec.
SpecInputs == {i \in ProbeInputs : i.dtype = "float32"}

ProbeFaults == {"none", "disposedInput", "conv"}

\* Spec: one instance under every sequence of constructions,
\* reconfigurations and synchronous tensor calls.
Next ==
  \/ \E o \in SobelOptions \cup {NoOptions} : Construct(o)
  \/ \E o \in SobelOptions : Configure(o)
  \/ GetConfig
  \/ \E input \in SpecInputs, fault \in ProbeFaults : ApplyToTensor(input, fault)
  \/ \E input \in SpecInputs, format \in OutputValues, fault \in ProbeFaults :
       ApplyWithFormat(input, format, fault)
  \/ \E input \in SpecInputs, fault \in ProbeFaults :
       GetGradientComponents(input, fault)
  \/ Consume

Spec == Init /\ [][Next]_vars

\* The configurations of the tensor specifications: every output format the
\* constructor accepts, both grayscale flags, both display flags.
TensorOptions ==
  {o \in [kernelSize : {NoOptions.kernelSize},
          output : Opt(OutputValues, ""),
          grayscale : Opt(BOOLEAN, FALSE) \ {NoOptions.grayscale},
          normalizationRange : {NoOptions.normalizationRange},
          normalizeOutputForDisplay :
            Opt(BOOLEAN, FALSE) \ {NoOptions.normalizeOutputForDisplay}] :
     constructor(o).error = NoError}

InitConfigured ==
  /\ \E o \in TensorOptions :
       /\ kernelSize = constructor(o).cfg.kernelSize
       /\ output = constructor(o).cfg.output
       /\ options = constructor(o).cfg.options
  /\ live = {}
  /\ nextId = 1
  /\ pending = <<>>
  /\ peer = NoPeer
  /\ last = Idle

\* SpecTensor: the synchronous tensor calls on every input, under every fault.
NextTensor ==
  \/ \E input \in Inputs, fault \in Faults : ApplyToTensor(input, fault)
  \/ \E input \in Inputs, fault \in Faults : GetGradientComponents(input, fault)
  \/ Consume

SpecTensor == InitConfigured /\ [][NextTensor]_vars

\* SpecAsync: the asynchronous entry points, overlapping.
NextAsync ==
  \/ \E input \in ProbeInputs : ProcessImageData(input)
  \/ \E input \in ProbeInputs, lengthOk \in BOOLEAN : ProcessPixelArray(input, lengthOk)
  \/ \E input \in ProbeInputs : Process2DArray(input)
  \/ \E i \in 1..(MaxPending + 1) : Resume(i)
  \/ \E sh \in BufferShapes : \E buf \in [1..(sh[1] * sh[2] * sh[3]) -> ByteValues] :
       RoundTrip(buf, sh[1], sh[2], sh[3])
  \/ Forget

SpecAsync == InitConfigured /\ [][NextAsync]_vars

\* The reconfigurations of SpecInterleaved: one field each.
ReconfigureOptions ==
  {[NoOptions EXCEPT !.output = [given |-> TRUE, v |-> f]] : f \in {"x", "magnitude"}}
    \cup {[NoOptions EXCEPT !.normalizeOutputForDisplay = [given |-> TRUE, v |-> b]] :
            b \in BOOLEAN}

\* The inputs of SpecInterleaved: one per entry point.
InterleavedInputs ==
  {i \in ProbeInputs : (i.c = 4 /\ i.dtype = "int32") \/ (i.c = 1 /\ i.dtype = "float32")}

\* SpecInterleaved: the asynchronous entry points, overlapping with each
\* other and with configure.
NextInterleaved ==
  \/ \E input \in InterleavedInputs : ProcessImageData(input)
  \/ \E input \in InterleavedInputs : ProcessPixelArray(input, TRUE)
  \/ \E input \in InterleavedInputs : Process2DArray(input)
  \/ \E o \in ReconfigureOptions : Configure(o)
  \/ \E i \in 1..(MaxPending + 1) : Resume(i)
  \/ Forget

SpecInterleaved == Init /\ [][NextInterleaved]_vars

\* The options of the static calls: nothing, a kernel size or an output
\* format, accepted or not.
StaticOptions ==
  {NoOptions}
    \cup {[NoOptions EXCEPT !.kernelSize = [given |-> TRUE, v |-> k]] :
            k \in KernelSizeValues}
    \cup {[NoOptions EXCEPT !.output = [given |-> TRUE, v |-> f]] : f \in OutputValues}

\* SpecStatic: the static method on inputs of every dtype and channel count.
NextStatic ==
  \/ \E input \in ProbeInputs, o \in StaticOptions, fault \in ProbeFaults :
       StaticApplyToTensor(input, o, fault)
  \/ Consume

SpecStatic == Init /\ [][NextStatic]_vars

\* The options two instances are constructed from.
PairOptions ==
  {NoOptions,
   [NoOptions EXCEPT !.kernelSize = [given |-> TRUE, v |-> 5]],
   [NoOptions EXCEPT !.grayscale = [given |-> TRUE, v |-> TRUE]]}

\* SpecInstances: two instances of one caller, reconfigured in turn.
NextInstances ==
  \/ \E o \in PairOptions, mode \in PairModes : ConstructPair(o, mode)
  \/ \E o \in ReconfigureOptions : Configure(o)
  \/ \E o \in ReconfigureOptions : ConfigurePeer(o)
  \/ \E b \in BOOLEAN : MutateOptions(b)
  \/ GetConfig
  \/ Consume

SpecInstances == Init /\ [][NextInstances]_vars

MaxSide == 4        \* the images with one bright pixel are MaxSide x MaxSide

\* The configurations of SpecPipeline: every kernel size, every registered
\* output format, both grayscale flags, the default and a given
\* normalization range, both display flags.
PipelineOptions ==
  [kernelSize : Opt({3, 5, 7}, 0) \ {NoOptions.kernelSize},
   output : Opt(OwnOutputFormats, "") \ {NoOptions.output},
   grayscale : Opt(BOOLEAN, FALSE) \ {NoOptions.grayscale},
   normalizationRange : Opt(RangeValues, <<0, 1>>),
   normalizeOutputForDisplay :
     Opt(BOOLEAN, FALSE) \ {NoOptions.normalizeOutputForDisplay}]

InitPipeline ==
  /\ \E o \in PipelineOptions :
       /\ kernelSize = constructor(o).cfg.kernelSize
       /\ output = constructor(o).cfg.output
       /\ options = constructor(o).cfg.options
  /\ live = {}
  /\ nextId = 1
  /\ pending = <<>>
  /\ peer = NoPeer
  /\ last = Idle

\* Inputs of every dtype, height and channel count.
ShapeInputs == {i \in Inputs : i.w = 2 /\ i.pat = MaxPat}

\* Three-channel inputs whose channels all hold the pattern of the first
\* (step 0), beside the ones whose channels differ (step 1).
StepInputs ==
  [dtype : {"float32"}, h : {MaxH}, w : {2}, c : {3}, pat : 1..MaxPat,
   step : {0, 1}, unit : {Scale}]

\* Single-channel inputs whose samples are 0 and 1/Fine.
FineInputs ==
  [dtype : {"float32"}, h : {MaxH}, w : {2}, c : {1}, pat : 1..MaxPat,
   step : {1}, unit : {Fine}]

\* Black single-channel images with one bright pixel.
BrightInputs ==
  [dtype : {"float32"}, h : {MaxSide}, w : {MaxSide}, c : {1},
   pat : {2 ^ k : k \in 0..(MaxSide * MaxSide - 1)}, step : {1}, unit : {Scale}]

PipelineInputs == ShapeInputs \cup StepInputs \cup FineInputs \cup BrightInputs

\* SpecPipeline: the tensor calls that nothing fails, under every
\* configuration.
NextPipeline ==
  \/ \E input \in PipelineInputs : ApplyToTensor(input, "none")
  \/ \E input \in ShapeInputs : GetGradientComponents(input, "none")
  \/ Consume

SpecPipeline == InitPipeline /\ [][NextPipeline]_vars


(***************************************************************************)
(* Properties.  `last` is the record of the call that has just completed:  *)
(* last.before is getConfig() before it, last.liveBefore the live tensors  *)
(* before it.                                                              *)
(***************************************************************************)

\* The input of a call as applyToTensor convolves it: after the channel
\* adaptation of ensureGrayscaleIfNeeded.
Adapted(input, grayscale) ==
  ensureGrayscaleIfNeeded(Heap({1}, 2), 1, FALSE, input.dtype, InputRaster(input),
                          grayscale, FALSE).x

\* The vertical gradient of a call's input: the convolution with the y kernel.
GradY(input, config) ==
  LET x == Adapted(input, config.grayscale)
  IN depthwiseConv2d(x, createSobelKernel("y", config.kernelSize, x.c))

\* C1: with output format 'y', the tensor the output strategy gives back to
\* applyToTensor is the element-wise absolute value of the vertical
\* gradient (the convolution of the adapted input with the y kernel).
C1_YIsAbsGradY ==
  (/\ last.op = "applyToTensor"
   /\ last.before.output = "y"
   /\ last.outcome = "returned"
   /\ last.reduced # NoRaster)
    => last.reduced = AbsT(GradY(last.input, last.before))

\* C2: configure is atomic: when it throws, getConfig() returns exactly the
\* configuration it returned before the call.
C2_ConfigureAtomic ==
  (last.op = "configure" /\ last.outcome = "threw") => getConfig(Cfg) = last.before

\* C3: a construction or reconfiguration that gives an output format other
\* than the five registered keys (and no kernel size) throws the error that
\* lists the five formats.
C3_OutputRejected ==
  (/\ last.op \in {"construct", "configure"}
   /\ ~last.opts.kernelSize.given
   /\ last.opts.output.given
   /\ last.opts.output.v \notin {"x", "y", "magnitude", "direction", "normalized"})
    => (/\ last.outcome = "threw"
        /\ last.error.kind = "output"
        /\ last.error.formats = <<"x", "y", "magnitude", "direction", "normalized">>)

\* C4: a construction or reconfiguration that gives a kernel size outside
\* {3, 5, 7} throws the error that lists 3, 5, 7.
C4_KernelSizeRejected ==
  (/\ last.op \in {"construct", "configure"}
   /\ last.opts.kernelSize.given
   /\ last.opts.kernelSize.v \notin {3, 5, 7})
    => (/\ last.outcome = "threw"
        /\ last.error.kind = "kernelSize"
        /\ last.error.sizes = <<3, 5, 7>>)

\* C5: between calls (every state of the model is between two calls) the
\* instance's kernel size is 3, 5 or 7 and its output format is one of the
\* five registered formats.
C5_ValidConfiguration ==
  /\ kernelSize \in {3, 5, 7}
  /\ output \in {"x", "y", "magnitude", "direction", "normalized"}

\* C6: applyToTensor and getGradientComponents on a raster whose channel
\* count is not 1, 3 or 4 throw, and return no raster.
C6_ChannelCountRejected ==
  (/\ last.op \in {"applyToTensor", "getGradientComponents"}
   /\ last.input.c \notin {1, 3, 4})
    => (last.outcome = "threw" /\ last.results = {})

\* Whether the fault of a call fails a tensor primitive the call invokes
\* (or one before it fails by itself): the adaptation makes a tensor
\* operation only for a non-float input, four channels, or three channels
\* with grayscale; the min-max reduction is made by the normalized strategy
\* only; the display normalization only when it is configured.
FaultHits(fault, config, input) ==
  CASE fault = "none" -> FALSE
    [] fault = "adapt" ->
         input.dtype # "float32" \/ input.c = 4 \/ (input.c = 3 /\ config.grayscale)
    [] fault = "normalize" -> config.output = "normalized"
    [] fault = "display" -> config.normalizeOutputForDisplay
    [] OTHER -> TRUE

\* C7: when a tensor primitive fails during applyToTensor, the call does
\* not throw: it returns an all-zero raster and logs an error.
C7_FailureFallsBack ==
  (last.op = "applyToTensor" /\ FaultHits(last.fault, last.before, last.input))
    => (/\ last.outcome = "returned"
        /\ IsAllZero(last.x)
        /\ \E l \in last.logs : l \in {"error: grayscale conversion",
                                       "error: sobel convolution",
                                       "error: normalization"})

\* C8: a failure of the convolution during getGradientComponents is not
\* thrown to the caller.
C8_ConvolutionFailureRecovered ==
  (last.op = "getGradientComponents" /\ last.fault = "conv")
    => last.outcome # "threw"

\* C9: after applyToTensor, on every exit path (normal return, the two
\* fallbacks, and a throw), the live tensors are the ones live before the
\* call and, when it returned, exactly one new tensor: the result.
C9_LiveIsBeforePlusResult ==
  last.op = "applyToTensor"
    => IF last.outcome = "returned"
       THEN /\ Cardinality(last.results) = 1
            /\ last.results \cap last.liveBefore = {}
            /\ live = last.liveBefore \cup last.results
       ELSE /\ last.results = {}
            /\ live = last.liveBefore

\* An int32 RGBA input with grayscale on (a float copy, a slice and a gray
\* tensor are made) whose convolution fails: the inner fallback returns
\* the zero raster, and it is the one tensor added.
C9_FallbackReleasesAll ==
  /\ last.op = "applyToTensor"
  /\ last.outcome = "returned"
  /\ last.fault = "conv"
  /\ last.input.dtype = "int32" /\ last.input.c = 4 /\ last.before.grayscale
  /\ "error: sobel convolution" \in last.logs
  /\ Cardinality(live) = Cardinality(last.liveBefore) + 1

\* C10: whenever every started processImageData, processPixelArray and
\* process2DArray call has completed, as many tensors are live as before
\* the first call: none.
C10_NoGrowth ==
  pending = <<>> => Cardinality(live) = 0

\* C11: for every kernel size, every channel count in {1, 3, 4} and both
\* grayscale flags, the raster applyToTensor returns has the height and the
\* width of the input.
C11_SameHeightAndWidth ==
  (/\ last.op = "applyToTensor"
   /\ last.outcome = "returned"
   /\ last.input.c \in {1, 3, 4})
    => (last.x.h = last.input.h /\ last.x.w = last.input.w)

\* A 7x7 kernel on a four-channel input reduced to grayscale: nothing
\* failed, and the result has the input's height and width.
C11_LargeKernelKeepsSize ==
  /\ last.op = "applyToTensor"
  /\ last.outcome = "returned"
  /\ last.logs = {}
  /\ last.before.kernelSize = 7
  /\ last.before.grayscale
  /\ last.input.c = 4 /\ last.input.h = MaxH
  /\ last.x.h = MaxH /\ last.x.w = last.input.w

\* C12: for an input of 1, 3 or 4 channels, the raster applyToTensor
\* returns has one channel when grayscale is on and the input's channel
\* count when grayscale is off.
C12_ChannelCount ==
  (/\ last.op = "applyToTensor"
   /\ last.outcome = "returned"
   /\ last.input.c \in {1, 3, 4})
    => last.x.c = IF last.before.grayscale THEN 1 ELSE last.input.c

\* The instance fields that getConfig() reported as `config`.
ConfigOf(config) ==
  [kernelSize |-> config.kernelSize,
   output |-> config.output,
   options |-> [grayscale |-> config.grayscale,
                normalizationRange |-> config.normalizationRange,
                normalizeOutputForDisplay |-> config.normalizeOutputForDisplay]]

\* applyToTensor(input) run alone, on a heap that holds the input only,
\* by an instance whose getConfig() is `config`.
RunAlone(input, config) ==
  applyToTensor(Heap({1}, 2), ConfigOf(config), 1, input.dtype,
                InputRaster(input), "none")

\* The horizontal gradient of a call's input.
GradX(input, config) ==
  LET x == Adapted(input, config.grayscale)
  IN depthwiseConv2d(x, createSobelKernel("x", config.kernelSize, x.c))

\* The gradient magnitude of a call's input: what the normalized strategy
\* scales.
Magnitude(input, config) ==
  ProcessorMagnitude(GradX(input, config), GradY(input, config))

\* C13: with output format 'normalized' and normalizeOutputForDisplay true,
\* applyToTensor returns the values it returns with
\* normalizeOutputForDisplay false (the display normalization changes
\* nothing), for every normalizationRange.
C13_DisplayNormalizationNoOp ==
  (/\ last.op = "applyToTensor"
   /\ last.outcome = "returned"
   /\ last.before.output = "normalized"
   /\ last.before.normalizeOutputForDisplay
   /\ last.reduced # NoRaster)
    => last.x.v =
         RunAlone(last.input,
                  [last.before EXCEPT !.normalizeOutputForDisplay = FALSE]).x.v

\* C14: the min-max transform of the 'normalized' strategy maps every
\* element of the gradient magnitude into [min, max], the smallest element
\* to min and, when the magnitude is not constant, the largest element to
\* max (a constant magnitude maps to min everywhere).
C14_MinMaxTransform ==
  (/\ last.op = "applyToTensor"
   /\ last.outcome = "returned"
   /\ last.before.output = "normalized"
   /\ ~last.before.normalizeOutputForDisplay
   /\ last.reduced # NoRaster)
    => LET m == Magnitude(last.input, last.before)
           lo == RangeOf(last.before)[1] * Scale
           hi == RangeOf(last.before)[2] * Scale
       IN \A i \in DOMAIN last.x.v :
            /\ lo <= last.x.v[i] /\ last.x.v[i] <= hi
            /\ m.v[i] = TensorMin(m) => last.x.v[i] = lo
            /\ (TensorMin(m) # TensorMax(m) /\ m.v[i] = TensorMax(m))
                 => last.x.v[i] = hi

\* C15: the magnitude that getGradientComponents returns equals, pointwise
\* and with the same shape, sqrt(X^2 + Y^2), where X and Y are what
\* applyToTensor returns for the same input under the same configuration
\* with the output formats 'x' and 'y'.
C15_MagnitudeOfXAndY ==
  (/\ last.op = "getGradientComponents"
   /\ last.outcome = "returned")
    => LET X == RunAlone(last.input, [last.before EXCEPT !.output = "x"]).x
           Y == RunAlone(last.input, [last.before EXCEPT !.output = "y"]).x
       IN /\ last.x.h = X.h /\ last.x.w = X.w /\ last.x.c = X.c
          /\ last.x.v = MagnitudeT(X, Y).v

\* Channel ch of a raster.
ChannelOf(t, ch) ==
  [p \in (1..t.h) \X (1..t.w) |-> t.v[<<p[1], p[2], ch>>]]

\* C16: with grayscale off, output format 'magnitude' and a multi-channel
\* input, channel ch of the raster applyToTensor returns depends on channel
\* ch of the input alone: an input of the same shape that agrees with it
\* on channel ch (and may differ on the others) gives a result that agrees
\* on channel ch.
C16_ChannelsNotMixed ==
  (/\ last.op = "applyToTensor"
   /\ last.outcome = "returned"
   /\ ~last.before.grayscale
   /\ last.before.output = "magnitude"
   /\ last.input.c > 1
   /\ last.reduced # NoRaster)
    => \A other \in PipelineInputs : \A ch \in 1..last.x.c :
         (/\ other.h = last.input.h /\ other.w = last.input.w
          /\ other.c = last.input.c /\ other.dtype = last.input.dtype
          /\ ChannelOf(InputRaster(other), ch) = ChannelOf(InputRaster(last.input), ch))
           => ChannelOf(RunAlone(other, last.before).x, ch) = ChannelOf(last.x, ch)

\* The pixels of a raster's first channel that are not black.
BrightPixels(t) ==
  {p \in (1..t.h) \X (1..t.w) : t.v[<<p[1], p[2], 1>>] # 0}

\* The Chebyshev distance of two pixels.
Chebyshev(p, q) ==
  IF Abs(p[1] - q[1]) > Abs(p[2] - q[2])
  THEN Abs(p[1] - q[1]) ELSE Abs(p[2] - q[2])

\* C17: a 3x3, grayscale, magnitude filter applied to a black
\* single-channel image with one bright pixel returns a raster that is
\* nonzero at every neighbour of that pixel inside the image and zero at
\* every pixel at Chebyshev distance 2 or more from it.
C17_RingAroundBrightPixel ==
  (/\ last.op = "applyToTensor"
   /\ last.outcome = "returned"
   /\ last.before.kernelSize = 3
   /\ last.before.grayscale
   /\ last.before.output = "magnitude"
   /\ last.input.c = 1
   /\ Cardinality(BrightPixels(InputRaster(last.input))) = 1)
    => \A b \in BrightPixels(InputRaster(last.input)) :
         \A p \in (1..last.x.h) \X (1..last.x.w) :
           /\ Chebyshev(p, b) = 1 => last.x.v[<<p[1], p[2], 1>>] # 0
           /\ Chebyshev(p, b) >= 2 => last.x.v[<<p[1], p[2], 1>>] = 0

\* The bright pixel is pixel (2, 2) of a MaxSide x MaxSide image: the
\* result is nonzero at the corner (1, 1), a neighbour, and zero at the far
\* corner.
C17_RingAndFarCorner ==
  /\ last.op = "applyToTensor"
  /\ last.outcome = "returned"
  /\ last.before.kernelSize = 3
  /\ last.before.grayscale
  /\ last.before.output = "magnitude"
  /\ last.input.c = 1
  /\ last.input.h = MaxSide /\ last.input.w = MaxSide
  /\ BrightPixels(InputRaster(last.input)) = {<<2, 2>>}
  /\ last.x.v[<<1, 1, 1>>] # 0
  /\ last.x.v[<<1, 2, 1>>] # 0
  /\ last.x.v[<<MaxSide, MaxSide, 1>>] = 0

\* C18: for a pixel buffer buf of w * h * c byte values, c in {1, 3, 4},
\* the pixel data of tensorToImageData(pixelArrayToTensor(buf, w, h, c),
\* false) is buf itself.
C18_RoundTrip ==
  (/\ last.op = "roundTrip"
   /\ last.outcome = "resolved"
   /\ last.input.c \in {1, 3, 4})
    => last.data = last.pixels

\* The arguments of a processPixelArray call that pixelArrayToTensor must
\* not accept: a channel count outside {1, 3, 4}, or a buffer whose length
\* is not width * height * channels.
Malformed(input, fault) == input.c \notin {1, 3, 4} \/ fault = "badLength"

\* C19: a processPixelArray call whose channel count is not 1, 3 or 4 or
\* whose buffer length differs from width * height * channels is rejected
\* with no result; such a call is never past the check (suspended or
\* resolved), and the step that rejects it allocates no tensor.
C19_RejectedBeforeAllocation ==
  /\ [](/\ \A i \in 1..Len(pending) :
             pending[i].op = "processPixelArray"
               => ~Malformed(pending[i].input, pending[i].fault)
        /\ (last.op = "processPixelArray" /\ Malformed(last.input, last.fault))
             => (/\ last.outcome = "rejected"
                 /\ last.results = {}
                 /\ last.x = NoRaster
                 /\ live = last.liveBefore))
  /\ [][(last'.op = "processPixelArray" /\ last'.outcome = "rejected")
          => (live' = live /\ nextId' = nextId /\ pending' = pending)]_vars

\* A call with a buffer of the wrong length and a supported channel count
\* has been rejected while another call is suspended: no tensor was made.
C19_BadLengthRejected ==
  /\ last.op = "processPixelArray"
  /\ last.outcome = "rejected"
  /\ last.fault = "badLength"
  /\ last.input.c \in {1, 3, 4}
  /\ pending # <<>>
  /\ live = last.liveBefore

\* The result of an asynchronous entry point run alone, on a heap that
\* holds its input only, by an instance whose getConfig() is `config`.
AsyncAlone(op, input, config) ==
  AsyncValue(op, applyToTensor(Heap({1}, 2), ConfigOf(config), 1, "float32",
                               InputRaster(input), "none").x)

\* C20: whatever configure calls and other asynchronous calls ran while it
\* was suspended, the result of an asynchronous call is the result of
\* running it alone under the configuration in force when it was invoked.
C20_ResultOfInvocationConfig ==
  (last.op \in AsyncOps /\ last.outcome = "resolved")
    => last.x = AsyncAlone(last.op, last.input, last.before)

\* A call has resolved after a configure that ran while it was suspended
\* and while another call is still suspended: its result is not the one
\* the current configuration gives.
C20_ReconfiguredWhileSuspended ==
  /\ last.op \in AsyncOps
  /\ last.outcome = "resolved"
  /\ pending # <<>>
  /\ last.before # getConfig(Cfg)
  /\ last.x = AsyncAlone(last.op, last.input, last.before)
  /\ last.x # AsyncAlone(last.op, last.input, getConfig(Cfg))

\* The 1-D convolution of two vectors.
Conv1D(a, b) ==
  [k \in 1..(Len(a) + Len(b) - 1) |->
     SumTo([i \in 1..Len(a) |->
              IF k - i + 1 \in 1..Len(b) THEN a[i] * b[k - i + 1] ELSE 0],
           Len(a))]

\* The 1-D vectors of the separable Sobel kernel of a size: the 3-tap ones
\* convolved with the binomial <<1, 2, 1>> once per step of 2 in size.
RECURSIVE Binomial(_, _)
Binomial(v, size) ==
  IF size <= 3 THEN v ELSE Conv1D(Binomial(v, size - 2), <<1, 2, 1>>)

\* C21: each kernel the call builds from the catalog is separable (any two
\* of its rows are proportional) and is the outer product of the smoothing
\* vector and the derivative vector obtained from <<1, 2, 1>> and
\* <<-1, 0, 1>> by convolving with the binomial <<1, 2, 1>>, once for size
\* 5 and twice for size 7.
C21_KernelsSeparable ==
  (last.op = "applyToTensor" /\ last.outcome = "returned")
    => LET size == last.before.kernelSize
           kx == createSobelKernel("x", size, 1).k
           ky == createSobelKernel("y", size, 1).k
           smooth == Binomial(<<1, 2, 1>>, size)
           deriv == Binomial(<<-1, 0, 1>>, size)
       IN \A i, j \in 1..size :
            /\ kx[i][j] = smooth[i] * deriv[j]
            /\ ky[i][j] = deriv[i] * smooth[j]
            /\ \A k, l \in 1..size :
                 /\ kx[i][j] * kx[k][l] = kx[i][l] * kx[k][j]
                 /\ ky[i][j] * ky[k][l] = ky[i][l] * ky[k][j]

\* C22: a call of applyToTensor that nothing fails goes through adapt,
\* convolve, reduce, normalize and dispose in that order: no operation is
\* handed an intermediate that was disposed before it, the output strategy
\* is reached, and after the call no intermediate is live (the live
\* tensors are the ones before the call and the result).
C22_StepsInOrder ==
  (/\ last.op = "applyToTensor"
   /\ last.fault = "none"
   /\ last.input.c \in {1, 3, 4}
   /\ last.before.output \in OwnOutputFormats)
    => (/\ last.outcome = "returned"
        /\ last.stale = {}
        /\ last.reduced # NoRaster
        /\ live = last.liveBefore \cup last.results)

\* C24: in applyToTensor and getGradientComponents (and in the
\* ensureGrayscaleIfNeeded they call), for every dtype, channel count in
\* {1, 3, 4} and grayscale flag, no tensor operation is handed a tensor
\* that the code has disposed.
C24_NoReadAfterDispose ==
  (/\ last.op \in {"applyToTensor", "getGradientComponents"}
   /\ last.fault = "none"
   /\ last.input.c \in {1, 3, 4})
    => last.stale = {}

\* C23: after a configure(p) that returned, getConfig() gives p's value for
\* each field p provides and the value it gave before the call for every
\* other field; and getConfig() leaves the configuration as it was.
C23_ConfigureFrame ==
  /\ (last.op = "configure" /\ last.outcome = "returned")
       => LET p == last.opts
              now == getConfig(Cfg)
              was == last.before
          IN /\ now.kernelSize = IF p.kernelSize.given THEN p.kernelSize.v
                                 ELSE was.kernelSize
             /\ now.output = IF p.output.given THEN p.output.v ELSE was.output
             /\ now.grayscale = IF p.grayscale.given THEN p.grayscale.v
                                ELSE was.grayscale
             /\ now.normalizationRange =
                  IF p.normalizationRange.given THEN p.normalizationRange
                  ELSE was.normalizationRange
             /\ now.normalizeOutputForDisplay =
                  IF p.normalizeOutputForDisplay.given
                  THEN p.normalizeOutputForDisplay.v
                  ELSE was.normalizeOutputForDisplay
  /\ last.op = "getConfig" => getConfig(Cfg) = last.before

\* configure({normalizeOutputForDisplay: false}) has returned on an
\* instance whose kernel size is 5: the display flag is now off and the
\* kernel size is still 5.
C23_OneFieldChanged ==
  /\ last.op = "configure"
  /\ last.outcome = "returned"
  /\ last.opts.normalizeOutputForDisplay.given
  /\ ~last.opts.normalizeOutputForDisplay.v
  /\ ~last.opts.kernelSize.given
  /\ last.before.normalizeOutputForDisplay
  /\ last.before.kernelSize = 5
  /\ ~getConfig(Cfg).normalizeOutputForDisplay
  /\ getConfig(Cfg).kernelSize = 5

\* C25: the configuration is per instance.  A configure call on one
\* instance leaves what getConfig() returns for the other instance as it
\* was, also when both were constructed from one options object; and a
\* write of the caller to the options object it passed in leaves what
\* getConfig() returns for both as it was.
C25_PerInstanceConfiguration ==
  peer.made =>
    /\ last.op = "configure" => getConfig(PeerCfg) = last.peerBefore
    /\ last.op = "configurePeer" => getConfig(Cfg) = last.before
    /\ last.op = "mutateOptions"
         => (getConfig(Cfg) = last.before /\ getConfig(PeerCfg) = last.peerBefore)

\* The call fell back to the all-zero raster: one of the two catch blocks
\* of applyToTensor ran.
FellBack(call) ==
  call.logs \cap {"error: sobel convolution", "error: grayscale conversion"} # {}

\* C26: when applyToTensor falls back to the all-zero raster, the raster
\* has the height, width and channel count of what the call returns for
\* the same input and configuration when nothing fails, for every channel
\* count in {1, 3, 4} and both grayscale flags.
C26_FallbackShape ==
  (/\ last.op = "applyToTensor"
   /\ last.outcome = "returned"
   /\ FellBack(last)
   /\ last.input.c \in {1, 3, 4}
   /\ ~FellBack(RunAlone(last.input, last.before)))
    => LET ok == RunAlone(last.input, last.before).x
       IN last.x.h = ok.h /\ last.x.w = ok.w /\ last.x.c = ok.c

\* C27: the static applyToTensor releases the float32 copy it makes of a
\* non-float input on every exit path: after the call the live tensors are
\* the ones before it and the result, and after a call that threw (a
\* configuration error of the constructor included) they are the ones
\* before it.
C27_StaticReleasesCopy ==
  last.op = "staticApplyToTensor"
    => /\ live = last.liveBefore \cup last.results
       /\ last.outcome = "threw" => live = last.liveBefore

\* C28: after applyWithFormat(input, f) has returned or thrown, getConfig()
\* is what it was before the call, the output format included, for every
\* format f, the unregistered ones included.
C28_FormatRestored ==
  last.op = "applyWithFormat" => getConfig(Cfg) = last.before

\* a call with the unregistered format 'invalid', other than the instance's
\* format, has thrown and the instance's format is the one before the call
C28_OtherFormatThrew ==
  /\ last.op = "applyWithFormat"
  /\ last.format # last.before.output
  /\ last.format = "invalid"
  /\ last.outcome = "threw"
  /\ output = last.before.output

\* C29: getGradientComponents returns magnitude and direction as rank-3
\* tensors of shape [height, width, channels'], channels' the channel count
\* of the adapted input, for every input: height 1, width 1 and a single
\* channel included.
C29_ComponentsRank3 ==
  (last.op = "getGradientComponents" /\ last.outcome = "returned")
    => last.shape = <<last.input.h, last.input.w,
                      Adapted(last.input, last.before.grayscale).c>>

\* C30: processPixelArray(pixels, width, height, channels) resolves with an
\* array of the layout of its input: for channels in {1, 3, 4} and either
\* grayscale flag its length is width * height * channels.
C30_SameLayout ==
  (/\ last.op = "processPixelArray"
   /\ last.outcome = "resolved"
   /\ last.fault = "none"
   /\ last.input.c \in {1, 3, 4})
    => Len(Flatten(last.x)) = last.input.w * last.input.h * last.input.c

====
